---- MODULE Spec2Model ----
(***************************************************************************)
(* Versioning / replay core of code_graph: the commit graph (GitGraph),    *)
(* the history builder (build_commit_graph), the backlog recorder          *)
(* (Graph._query) and the checkpoint switcher (switch_commit).             *)
(*                                                                         *)
(* Modelling conventions                                                    *)
(*  - a commit of the first-parent lineage is its index 1..n (1 = root,    *)
(*    n = HEAD); its hexsha is that index; 0 is the empty string and       *)
(*    UnknownHash a well-formed hash that is no commit of the repository;  *)
(*  - a tree maps each file to a content version, 0 = absent;              *)
(*  - an optional (None-able / NULL-able) value is a sequence of length    *)
(*    0 or 1.                                                              *)
(***************************************************************************)
EXTENDS Integers, Sequences, FiniteSets, TLC

\* ------------------------------------------------------------------ bounds
\* commits of the lineage
MaxCommits == 3
\* calls made on one Graph object driven call by call
MaxApiCalls == 4
\* switches that reach the replay phase in one behaviour
MaxSwitches == 2
\* the same, after a build that an injected fault interrupted
MaxFaultSwitches == 1
\* calls of build_commit_graph in one behaviour
MaxBuilds == 2

None == <<>>
Some(x) == <<x>>
IsSome(o) == o # <<>>
The(o) == o[1]

Last(s) == s[Len(s)]
Front(s) == SubSeq(s, 1, Len(s) - 1)

RECURSIVE SeqOfSet(_)
\* ascending sequence of a finite set of integers
SeqOfSet(S) ==
    IF S = {} THEN <<>>
    ELSE LET m == CHOOSE x \in S : \A y \in S : x <= y
         IN <<m>> \o SeqOfSet(S \ {m})

\* ------------------------------------------------------- repository input
\* the files of the repository, in the path order git lists them
FileOrder == <<"a.py", "b.py">>
FileSet == {FileOrder[i] : i \in 1..Len(FileOrder)}

\* number of content versions a file takes in the histories explored
Versions(f) == IF f = "a.py" THEN 1..2 ELSE 0..1

\* os.path.splitext(path)[1] / Path.suffix
Ext(f) == IF f \in {"a.py", "b.py", "c.py"} THEN ".py" ELSE ".md"
\* os.path.dirname(path): every file sits at the repository root
Dirname(f) == ""

\* the definitions a source file holds at a content version, in AST order:
\* owner = 0 for a top-level definition, else the index of the enclosing one.
\* span stands for (src_start, src_end) together with the source text.
Source(f, v) ==
    IF f = "a.py" /\ v = 1 THEN
        << [lbl |-> "Function", name |-> "f", span |-> 1, owner |-> 0] >>
    ELSE IF f = "a.py" /\ v = 2 THEN
        << [lbl |-> "Function", name |-> "f", span |-> 2, owner |-> 0] >>
    ELSE IF f = "b.py" /\ v = 1 THEN
        << [lbl |-> "Class", name |-> "K", span |-> 1, owner |-> 0],
           [lbl |-> "Function", name |-> "m", span |-> 1, owner |-> 1] >>
    ELSE <<>>

TreeSet == {t \in [FileSet -> 0..2] : \A f \in FileSet : t[f] \in Versions(f)}

\* committed dates of a lineage of n commits: increasing with the lineage,
\* or all equal (commits made within the same second)
DateFns(n) == {[i \in 1..n |-> i], [i \in 1..n |-> 1]}

\* the histories explored: every commit changes some file
Histories ==
    UNION {[n : {n},
            tree : {t \in [1..n -> TreeSet] :
                      \A i \in 1..(n - 1) : t[i] # t[i + 1]},
            date : DateFns(n)]
           : n \in 1..MaxCommits}

UnknownHash == MaxCommits + 1
Author(i) == <<"author", i>>
Message(i) == <<"message", i>>

\* commit.parents of commit c (first-parent lineage, linear history)
Parents(c) == IF c > 1 THEN <<c - 1>> ELSE <<>>

\* SourceAnalyzer.supported_types
supported_types == {".c", ".h", ".py"}

\* is_ignored: the path starts with an entry of the ignore list
is_ignored(f, ignore_list) == f \in ignore_list

\* a.diff(b): one change per file that differs between tree a and tree b
Diff(a, b) ==
    LET ch(f) == [path |-> f,
                  new_file |-> a[f] = 0 /\ b[f] # 0,
                  deleted_file |-> a[f] # 0 /\ b[f] = 0,
                  change_type |-> IF a[f] = 0 THEN "A"
                                  ELSE IF b[f] = 0 THEN "D" ELSE "M"]
        all == [i \in 1..Len(FileOrder) |-> ch(FileOrder[i])]
    IN SelectSeq(all, LAMBDA c : a[c.path] # b[c.path])

Paths(changes) == [i \in 1..Len(changes) |-> changes[i].path]

\* the added and the deleted files exchanged (sensitivity of C24)
ClassifySwapped(diff, ignore_list) ==
    [added |-> Paths(SelectSeq(diff, LAMBDA c :
                  c.deleted_file /\ ~is_ignored(c.path, ignore_list))),
     deleted |-> Paths(SelectSeq(diff, LAMBDA c :
                  c.new_file /\ ~is_ignored(c.path, ignore_list))),
     modified |-> Paths(SelectSeq(diff, LAMBDA c :
                  c.change_type = "M" /\ ~is_ignored(c.path, ignore_list)))]

\* classify_changes: the changes of a diff by kind, ignored paths left out
classify_changes(diff, ignore_list) ==
    [added |-> Paths(SelectSeq(diff, LAMBDA c :
                  c.new_file /\ ~is_ignored(c.path, ignore_list))),
     deleted |-> Paths(SelectSeq(diff, LAMBDA c :
                  c.deleted_file /\ ~is_ignored(c.path, ignore_list))),
     modified |-> Paths(SelectSeq(diff, LAMBDA c :
                  c.change_type = "M" /\ ~is_ignored(c.path, ignore_list)))]

\* ----------------------------------------------------------- code graph
\* A graph of the store: nodes with identifiers, edges, and the identifier
\* allocator (deleted identifiers are reused, last freed first).
EmptyGraph == [nodes |-> {}, edges |-> {}, free |-> <<>>, next |-> 0]

NoParam == [path |-> "", name |-> "", span |-> 0, src |-> 0, dst |-> 0,
            files |-> <<>>]

NodeIds(g) == {n.id : n \in g.nodes}

Match(g, lbl, path, name, span) ==
    {n \in g.nodes : n.lbl = lbl /\ n.path = path /\ n.name = name
                     /\ n.span = span}

\* MERGE (n:lbl {path, name, span}) RETURN n
MergeNode(g, lbl, path, name, span) ==
    LET found == Match(g, lbl, path, name, span)
    IN IF found # {}
       THEN [g |-> g, changed |-> FALSE,
             rows |-> <<(CHOOSE n \in found : \A m \in found : n.id <= m.id).id>>]
       ELSE LET id == IF g.free # <<>> THEN Last(g.free) ELSE g.next
                node == [id |-> id, lbl |-> lbl, path |-> path,
                         name |-> name, span |-> span]
            IN [g |-> [g EXCEPT !.nodes = @ \cup {node},
                                !.free = IF g.free # <<>> THEN Front(@) ELSE @,
                                !.next = IF g.free # <<>> THEN @ ELSE @ + 1],
                changed |-> TRUE, rows |-> <<id>>]

\* MATCH (src), (dest) WHERE ID(src) = $src_id AND ID(dest) = $dest_id
\* MERGE (src)-[e:relation]->(dest) RETURN e
MergeEdge(g, rel, src, dst) ==
    LET e == [src |-> src, rel |-> rel, dst |-> dst]
    IN IF src \in NodeIds(g) /\ dst \in NodeIds(g) /\ e \notin g.edges
       THEN [g |-> [g EXCEPT !.edges = @ \cup {e}], changed |-> TRUE,
             rows |-> <<>>]
       ELSE [g |-> g, changed |-> FALSE, rows |-> <<>>]

\* the query of Graph.delete_files: the File nodes named in $files and the
\* entities one DEFINES edge away from them are deleted, with their edges
DeleteQuery(g, files) ==
    LET names == {files[i] : i \in 1..Len(files)}
        Fs == {n \in g.nodes : n.lbl = "File" /\ n.name \in names}
        Es == {n \in g.nodes : \E f \in Fs :
                 [src |-> f.id, rel |-> "DEFINES", dst |-> n.id] \in g.edges}
        gone == {n.id : n \in Fs \cup Es}
    IN [g |-> [g EXCEPT !.nodes = {n \in @ : n.id \notin gone},
                        !.edges = {e \in @ : e.src \notin gone /\ e.dst \notin gone},
                        !.free = @ \o SeqOfSet(gone)],
        changed |-> gone # {},
        rows |-> SeqOfSet(gone)]

\* self.g.query(q, params): the store executes the operation text q
ExecQuery(g, q, p) ==
    IF q = "MERGE File" THEN MergeNode(g, "File", p.path, p.name, 0)
    ELSE IF q = "MERGE Function" THEN MergeNode(g, "Function", p.path, p.name, p.span)
    ELSE IF q = "MERGE Class" THEN MergeNode(g, "Class", p.path, p.name, p.span)
    ELSE IF q = "MERGE DEFINES" THEN MergeEdge(g, "DEFINES", p.src, p.dst)
    ELSE IF q = "DELETE files" THEN DeleteQuery(g, p.files)
    ELSE [g |-> g, changed |-> FALSE, rows |-> <<>>]

\* every operation text taken for a deletion (sensitivity of C19)
AnyText(q) == TRUE

\* "DELETE" in q
IsDeleteText(q) == q = "DELETE files"

\* ---------------------------------------------------- backlog recorder
\* a Graph object: the graph it is connected to and its backlog
\* (None = disabled, else the recorded queries and params)
NewBacklog == [queries |-> <<>>, params |-> <<>>]

\* _query that records every operation issued while armed (sensitivity of C12)
QueryRecordAll(s, q, p) ==
    LET r == ExecQuery(s.g, q, p)
    IN [g |-> r.g,
        backlog |-> IF IsSome(s.backlog)
                    THEN Some([queries |-> Append(The(s.backlog).queries, q),
                               params |-> Append(The(s.backlog).params, p)])
                    ELSE s.backlog,
        rows |-> r.rows]

\* Graph._query: execute, then record the operation if a counter is positive
query(s, q, p) ==
    LET r == ExecQuery(s.g, q, p)
    IN [g |-> r.g,
        backlog |-> IF IsSome(s.backlog) /\ r.changed
                    THEN Some([queries |-> Append(The(s.backlog).queries, q),
                               params |-> Append(The(s.backlog).params, p)])
                    ELSE s.backlog,
        rows |-> r.rows]

\* clear_backlog that returns the lists and keeps them (sensitivity of C13)
ClearBacklogKeep(s) ==
    IF IsSome(s.backlog)
    THEN [queries |-> The(s.backlog).queries, params |-> The(s.backlog).params,
          backlog |-> s.backlog]
    ELSE [queries |-> <<>>, params |-> <<>>, backlog |-> s.backlog]

\* Graph.clear_backlog: the recorded lists, and the backlog reset
clear_backlog(s) ==
    IF IsSome(s.backlog)
    THEN [queries |-> The(s.backlog).queries, params |-> The(s.backlog).params,
          backlog |-> Some(NewBacklog)]
    ELSE [queries |-> <<>>, params |-> <<>>, backlog |-> s.backlog]

\* Graph.add_file
add_file(s, f) ==
    query(s, "MERGE File", [NoParam EXCEPT !.path = Dirname(f), !.name = f])

\* Graph.add_class / Graph.add_function
add_entity(s, f, e) ==
    query(s, IF e.lbl = "Class" THEN "MERGE Class" ELSE "MERGE Function",
          [NoParam EXCEPT !.path = f, !.name = e.name, !.span = e.span])

\* Graph.connect_entities
connect_entities(s, rel, src, dst) ==
    query(s, "MERGE " \o rel, [NoParam EXCEPT !.src = src, !.dst = dst])

\* Graph.delete_files
delete_files(s, files) ==
    query(s, "DELETE files", [NoParam EXCEPT !.files = files])

RECURSIVE first_pass_traverse(_, _, _, _, _)
\* PythonAnalyzer.first_pass_traverse over the definitions ents[i..]: ids[k]
\* is the node id of definition k, fileId the id of the File node
first_pass_traverse(s, f, ents, ids, fileId) ==
    LET i == Len(ids) + 1
    IN IF i > Len(ents) THEN s
       ELSE LET e == ents[i]
                s1 == add_entity(s, f, e)
                id == s1.rows[1]
                parent == IF e.owner = 0 THEN fileId ELSE ids[e.owner]
                s2 == connect_entities(s1, "DEFINES", parent, id)
            IN first_pass_traverse(s2, f, ents, Append(ids, id), fileId)

\* PythonAnalyzer.first_pass on file f holding content version v
first_pass(s, f, v) ==
    LET s1 == add_file(s, f)
    IN first_pass_traverse(s1, f, Source(f, v), <<>>, s1.rows[1])

\* SourceAnalyzer.analyze_file: first pass, then a second pass over the same
\* (already consumed) file handle, which reads an empty source
analyze_file(s, f, v) ==
    IF Ext(f) \notin supported_types THEN s ELSE first_pass(s, f, v)

RECURSIVE analyze_files(_, _, _)
\* the loop "for new_file in added: analyzer.analyze_file(new_file, g)"
analyze_files(s, files, tree) ==
    IF files = <<>> THEN s
    ELSE analyze_files(analyze_file(s, files[1], tree[files[1]]), Tail(files), tree)

\* SourceAnalyzer.analyze_sources on a working tree: every supported file present
analyze_sources(tree) ==
    analyze_files([g |-> EmptyGraph, backlog |-> None, rows |-> <<>>],
                  SelectSeq(FileOrder, LAMBDA f : tree[f] # 0), tree).g

\* the File entities of a graph, by name
FilesOf(g) == {n.name : n \in {m \in g.nodes : m.lbl = "File"}}
\* the supported files of a tree
TreeFiles(tree) == {f \in FileSet : tree[f] # 0 /\ Ext(f) \in supported_types}

\* ---------------------------------------------------------- commit graph
\* GitGraph: Commit nodes (identifier and four properties) and PARENT / CHILD
\* edges between nodes (identifier, endpoints, optional queries and params
\* properties), with the two identifier allocators of the store
EmptyCommitGraph == [nodes |-> {}, edges |-> {}, next |-> 0, enext |-> 0]

HasEdge(cg, kind, src, dst) ==
    \E e \in cg.edges : e.kind = kind /\ e.src = src /\ e.dst = dst

\* MERGE (src)-[:kind]->(dst) on two matched nodes
MergeCommitEdge(cg, kind, src, dst) ==
    IF HasEdge(cg, kind, src, dst) THEN cg
    ELSE [cg EXCEPT !.edges = @ \cup {[id |-> cg.enext, kind |-> kind,
                                       src |-> src, dst |-> dst,
                                       queries |-> None, params |-> None]},
                    !.enext = @ + 1]

\* add_commit with CREATE in place of MERGE (sensitivity of C5)
AddCommitCreate(cg, hash, author, message, date) ==
    [cg EXCEPT !.nodes = @ \cup {[id |-> cg.next, hash |-> hash,
                                  author |-> author, message |-> message,
                                  date |-> date]},
               !.next = @ + 1]

\* add_commit that drops the committed date (sensitivity of C3)
AddCommitNoDate(cg, hash, author, message, date) ==
    IF \E c \in cg.nodes : c.hash = hash
    THEN cg
    ELSE [cg EXCEPT !.nodes = @ \cup {[id |-> cg.next, hash |-> hash,
                                       author |-> author, message |-> message,
                                       date |-> 0]},
                    !.next = @ + 1]

\* GitGraph.add_commit: MERGE (c:Commit {hash, author, message, date})
add_commit(cg, hash, author, message, date) ==
    IF \E c \in cg.nodes : c.hash = hash /\ c.author = author
                           /\ c.message = message /\ c.date = date
    THEN cg
    ELSE [cg EXCEPT !.nodes = @ \cup {[id |-> cg.next, hash |-> hash,
                                       author |-> author, message |-> message,
                                       date |-> date]},
                    !.next = @ + 1]

\* GitGraph._commit_from_node: the dict built from a Commit node
commit_from_node(node) ==
    [hash |-> node.hash, date |-> node.date, author |-> node.author,
     message |-> node.message]

\* get_commits without the WHERE clause (sensitivity of C7)
GetCommitsAll(cg, hashes) ==
    LET ids == SeqOfSet({c.id : c \in cg.nodes})
    IN [i \in 1..Len(ids) |->
          commit_from_node(CHOOSE c \in cg.nodes : c.id = ids[i])]

\* GitGraph.get_commits: one dict per Commit node whose hash is in the list
get_commits(cg, hashes) ==
    LET found == {c \in cg.nodes : c.hash \in hashes}
        ids == SeqOfSet({c.id : c \in found})
    IN [i \in 1..Len(ids) |->
          commit_from_node(CHOOSE c \in found : c.id = ids[i])]

\* connect_commits without its second MERGE clause (sensitivity of C4)
ConnectParentOnly(cg, child, parent) ==
    LET rows == {<<c, p>> \in cg.nodes \X cg.nodes :
                    c.hash = child /\ p.hash = parent}
    IN IF rows = {} THEN cg
       ELSE LET r == CHOOSE x \in rows : TRUE
            IN MergeCommitEdge(cg, "PARENT", r[1], r[2])

RECURSIVE ConnectRows(_, _)
\* the two MERGE clauses of connect_commits, row by row of the MATCH
ConnectRows(cg, rows) ==
    IF rows = {} THEN cg
    ELSE LET r == CHOOSE x \in rows : \A y \in rows :
                     x[1].id < y[1].id
                     \/ (x[1].id = y[1].id /\ x[2].id <= y[2].id)
             g1 == MergeCommitEdge(cg, "PARENT", r[1], r[2])
             g2 == MergeCommitEdge(g1, "CHILD", r[2], r[1])
         IN ConnectRows(g2, rows \ {r})

\* GitGraph.connect_commits: MATCH the two commits, MERGE both edges
connect_commits(cg, child, parent) ==
    ConnectRows(cg, {<<c, p>> \in cg.nodes \X cg.nodes :
                       c.hash = child /\ p.hash = parent})

\* MATCH (from {hash})-[e:kind]->(to {hash}) SET e.queries = .., e.params = ..
SetTransition(cg, kind, from, to, queries, params) ==
    [cg EXCEPT !.edges =
        {IF e.kind = kind /\ e.src.hash = from /\ e.dst.hash = to
         THEN [e EXCEPT !.queries = Some(queries), !.params = Some(params)]
         ELSE e : e \in @}]

\* GitGraph.set_parent_transition
set_parent_transition(cg, child, parent, queries, params) ==
    SetTransition(cg, "PARENT", child, parent, queries, params)

\* GitGraph.set_child_transition binds child, parent and queries only, and its
\* query text refers to $params: the store rejects the query (missing
\* parameter) and nothing is written.  ok = FALSE: the call raises.
set_child_transition(cg, child, parent, queries, params) ==
    LET bound == {"child", "parent", "queries"}
        used == {"child", "parent", "queries", "params"}
    IN IF used \subseteq bound
       THEN [ok |-> TRUE,
             cg |-> SetTransition(cg, "CHILD", parent, child, queries, params)]
       ELSE [ok |-> FALSE, cg |-> cg]

RECURSIVE PathsFrom(_, _, _, _, _)
\* the paths (src)-[:kind*]->(:Commit {hash: toHash}) of one hop or more, as
\* sequences of edges, no edge used twice
PathsFrom(cg, kind, src, toHash, used) ==
    LET out == {e \in cg.edges : e.kind = kind /\ e.src = src /\ e \notin used}
    IN UNION {(IF e.dst.hash = toHash THEN {<<e>>} ELSE {})
              \cup {<<e>> \o p : p \in
                       PathsFrom(cg, kind, e.dst, toHash, used \cup {e})}
              : e \in out}

AllPaths(cg, kind, fromHash, toHash) ==
    UNION {PathsFrom(cg, kind, c, toHash, {}) :
             c \in {n \in cg.nodes : n.hash = fromHash}}

RECURSIVE CollectSome(_)
\* collect(x): the non-NULL values, in order
CollectSome(opts) ==
    IF opts = <<>> THEN <<>>
    ELSE (IF IsSome(Head(opts)) THEN <<The(Head(opts))>> ELSE <<>>)
         \o CollectSome(Tail(opts))

\* the payloads of a path from its far end backwards (sensitivity of C16)
PathPayloadReversed(path) ==
    LET es == SelectSeq(path, LAMBDA e : IsSome(e.queries))
        n == Len(es)
    IN [queries |-> CollectSome([i \in 1..n |-> es[n + 1 - i].queries]),
        params |-> CollectSome([i \in 1..n |-> es[n + 1 - i].params])]

\* UNWIND relationships(path) AS e WITH e WHERE e.queries is not NULL
\* RETURN collect(e.queries), collect(e.params)
PathPayload(path) ==
    LET es == SelectSeq(path, LAMBDA e : IsSome(e.queries))
    IN [queries |-> CollectSome([i \in 1..Len(es) |-> es[i].queries]),
        params |-> CollectSome([i \in 1..Len(es) |-> es[i].params])]

\* the results the path query can return (LIMIT 1: any one path; no path:
\* one row of two empty lists)
Transitions(cg, kind, fromHash, toHash) ==
    LET ps == AllPaths(cg, kind, fromHash, toHash)
    IN IF ps = {} THEN {[queries |-> <<>>, params |-> <<>>]}
       ELSE {PathPayload(p) : p \in ps}

\* GitGraph.get_parent_transitions(child, parent)
get_parent_transitions(cg, child, parent) ==
    Transitions(cg, "PARENT", child, parent)

\* GitGraph.get_child_transitions(child, parent)
get_child_transitions(cg, child, parent) ==
    Transitions(cg, "CHILD", parent, child)

\* GitGraph.get_child_commit(parent): the commits one CHILD edge away
get_child_commit(cg, parent) ==
    {e.dst : e \in {x \in cg.edges : x.kind = "CHILD" /\ x.src.hash = parent}}

\* json.dumps of a parameter dict, json.loads of the stored string
JsonDumps(p) == <<"json", p>>
JsonLoads(s) == s[2]
DumpAll(params) == [i \in 1..Len(params) |-> JsonDumps(params[i])]

\* ------------------------------------------------------------------ state
VARIABLES
    repo,        \* the repository: n commits, their trees and dates
    procs,       \* the processes that call into the core
    worktree,    \* the commit the working tree is checked out at
    live,        \* the live code-graph <repo>
    scratch,     \* the scratch graph <repo>_tmp, None when the key is absent
    cg,          \* the commit graph {<repo>}_git
    checkpoint,  \* the key {<repo>}_commit, None when unset
    bld,         \* per process: the locals of its build_commit_graph call
    sw,          \* per process: the locals of its switch_commit call
    lastMove,    \* history: the last switch that moved the checkpoint
    nSwitch,     \* history: the switches that reached the replay phase
    allOk,       \* history: no call has failed on a fault or been refused
    api          \* a Graph object driven call by call, and the last such call

vars == <<repo, procs, worktree, live, scratch, cg, checkpoint, bld, sw,
          lastMove, nSwitch, allOk, api>>

\* the default ignore_list of build_commit_graph
IgnoreList == {}

BuildTerminal == {"idle", "done", "aborted"}
SwitchTerminal == {"idle", "returned", "failed"}

IdleBuild ==
    [pc |-> "idle", backlog |-> None, head |-> 0, child |-> 0, parent |-> 0,
     added |-> <<>>, deleted |-> <<>>, why |-> "", start |-> None, runs |-> 0,
     prev |-> None, steps |-> <<>>]

EmptyChangeSet ==
    [deletions |-> [nodes |-> <<>>, edges |-> <<>>],
     additions |-> [nodes |-> <<>>, edges |-> <<>>],
     modifications |-> [nodes |-> <<>>, edges |-> <<>>]]

StrArg(v) == [str |-> TRUE, val |-> v]
IdleSwitch ==
    [pc |-> "idle", repo |-> StrArg(0), to |-> StrArg(0), current |-> None,
     pending |-> <<>>, change_set |-> EmptyChangeSet, why |-> "",
     dir |-> "", pre |-> None, reads |-> 0, ddl |-> 0, cgq |-> 0,
     liveq |-> 0, writes |-> 0, total |-> 0, round |-> None,
     payload |-> NewBacklog, executed |-> <<>>]

\* Graph(name) on a new key: an empty graph, the backlog disabled; log is
\* the history of the effective queries issued while armed since the last
\* drain, skipped counts the queries issued while armed that changed nothing,
\* lastlog and prevlast are the logs at the last drain and the one before;
\* for a GitGraph object: the edge kind and the two hashes of the last
\* set-transition call, whether it returned, and the commit graph before it
NoCall ==
    [n |-> 0, op |-> "", prevop |-> "", g |-> EmptyGraph, backlog |-> None,
     log |-> <<>>, skipped |-> 0, drained |-> NewBacklog, lastlog |-> <<>>,
     prevlast |-> <<>>, wasArmed |-> FALSE,
     kind |-> "", from |-> 0, to |-> 0, ok |-> TRUE, pre |-> EmptyCommitGraph]

\* a process runs one call at a time
Free(p) == bld[p].pc \in BuildTerminal /\ sw[p].pc \in SwitchTerminal

\* repo.commit(hash) -> the attributes GitGraph stores for it
CommitRec(c) ==
    [hash |-> c, author |-> Author(c), message |-> Message(c),
     date |-> repo.date[c]]

\* git_graph.add_commit(commit)
AddCommit(g, c) == add_commit(g, c, Author(c), Message(c), repo.date[c])

\* the graph a Graph object queries: a query on an absent key creates it
GraphOf(opt) == IF IsSome(opt) THEN The(opt) ELSE EmptyGraph

Init ==
    /\ repo \in Histories
    /\ procs = {1}
    /\ worktree = repo.n
    /\ live = analyze_sources(repo.tree[repo.n])
    /\ scratch = None
    /\ cg = EmptyCommitGraph
    /\ checkpoint = Some(repo.n)
    /\ bld = [p \in procs |-> IdleBuild]
    /\ sw = [p \in procs |-> IdleSwitch]
    /\ lastMove = None
    /\ nSwitch = 0
    /\ allOk = TRUE
    /\ api = NoCall

\* ------------------------------------------------------- history builder
\* a clone that copies over an existing <repo>_tmp key (sensitivity of C21)
BuildBeginOverwrite(p, b) ==
    /\ scratch' = Some(live)
    /\ cg' = AddCommit(cg, worktree)
    /\ bld' = [bld EXCEPT ![p] = [b EXCEPT !.pc = "back",
                   !.backlog = Some(NewBacklog), !.head = worktree,
                   !.child = worktree,
                   !.start = Some([live |-> live, head |-> worktree])]]

\* build_commit_graph, lines 82-99 and 107: clone the live graph (raises
\* when <repo>_tmp exists), arm the backlog, record HEAD
BuildBegin(p, b) ==
    IF IsSome(scratch)
    THEN /\ bld' = [bld EXCEPT ![p] = [b EXCEPT !.pc = "aborted",
                                               !.why = "clone"]]
         /\ UNCHANGED <<scratch, cg, api>>
    ELSE /\ scratch' = Some(live)
         /\ cg' = AddCommit(cg, worktree)
         /\ bld' = [bld EXCEPT ![p] = [b EXCEPT !.pc = "back",
                        !.backlog = Some(NewBacklog), !.head = worktree,
                        !.child = worktree,
                        !.start = Some([live |-> live, head |-> worktree])]]

\* the first call of build_commit_graph (the locals of the process's last
\* switch_commit call are gone)
BuildStart(p) ==
    /\ Free(p)
    /\ bld[p].pc = "idle"
    /\ BuildBegin(p, [IdleBuild EXCEPT !.runs = 1])
    /\ sw' = [sw EXCEPT ![p] = IdleSwitch]
    /\ UNCHANGED <<repo, procs, worktree, live, checkpoint, lastMove, nSwitch,
                   allOk, api>>

\* a later call of build_commit_graph, after the previous one has ended; prev
\* remembers the commit graph the previous run left
Rebuild(p) ==
    /\ Free(p)
    /\ bld[p].pc \in {"done", "aborted"}
    /\ bld[p].runs < MaxBuilds
    /\ BuildBegin(p, [IdleBuild EXCEPT !.runs = bld[p].runs + 1,
                                       !.prev = Some(cg)])
    /\ sw' = [sw EXCEPT ![p] = IdleSwitch]
    /\ UNCHANGED <<repo, procs, worktree, live, checkpoint, lastMove, nSwitch,
                   allOk, api>>

\* one turn of the backward loop up to the checkout (lines 108-131), or the
\* end of the loop (line 191)
BackLink(p) ==
    /\ bld[p].pc = "back"
    /\ LET b == bld[p] IN
       IF Parents(b.child) = <<>>
       THEN /\ bld' = [bld EXCEPT ![p] = [b EXCEPT !.pc = "fwd",
                                                  !.parent = b.child]]
            /\ cg' = cg
       ELSE LET parent == Parents(b.child)[1]
                ch == classify_changes(
                        Diff(repo.tree[b.child], repo.tree[parent]), IgnoreList)
            IN /\ cg' = connect_commits(AddCommit(cg, parent), b.child, parent)
               /\ bld' = [bld EXCEPT ![p] = [b EXCEPT !.pc = "back_checkout",
                              !.parent = parent, !.added = ch.added,
                              !.deleted = ch.deleted]]
    /\ UNCHANGED <<repo, procs, worktree, live, scratch, checkpoint, sw, lastMove, nSwitch,
                   allOk, api>>

\* a checkout that also records the commit as the checkpoint (sensitivity
\* of C22)
BackCheckoutSetsCommit(p) ==
    /\ bld[p].pc = "back_checkout"
    /\ worktree' = bld[p].parent
    /\ checkpoint' = Some(bld[p].parent)
    /\ bld' = [bld EXCEPT ![p].pc = "back_apply"]
    /\ UNCHANGED <<repo, procs, live, scratch, cg, sw, lastMove, nSwitch,
                   allOk, api>>

\* repo.git.checkout(parent_commit.hexsha), line 135
BackCheckout(p) ==
    /\ bld[p].pc = "back_checkout"
    /\ worktree' = bld[p].parent
    /\ bld' = [bld EXCEPT ![p].pc = "back_apply"]
    /\ UNCHANGED <<repo, procs, live, scratch, cg, checkpoint, sw, lastMove, nSwitch,
                   allOk, api>>

\* history of a loop turn: the edge it is about and the scratch graph before
\* and after its changes
StepDone(kind, from, to, after) ==
    [kind |-> kind, from |-> from, to |-> to, pre |-> GraphOf(scratch),
     post |-> after]

\* the deletions executed on a Graph object whose backlog is not armed
\* (sensitivity of C23)
ApplyChangesDeleteUnarmed(b) ==
    LET s0 == [g |-> GraphOf(scratch), backlog |-> None, rows |-> <<>>]
        deleted_files == SelectSeq(b.deleted,
                                   LAMBDA f : Ext(f) \in supported_types)
        s1 == IF Len(deleted_files) > 0 THEN delete_files(s0, deleted_files)
              ELSE s0
    IN analyze_files([s1 EXCEPT !.backlog = b.backlog], b.added,
                     repo.tree[worktree])

\* lines 143-161 / 217-235: delete the deleted files, analyze the added ones
\* as the working tree holds them
ApplyChanges(b) ==
    LET s0 == [g |-> GraphOf(scratch), backlog |-> b.backlog, rows |-> <<>>]
        deleted_files == SelectSeq(b.deleted,
                                   LAMBDA f : Ext(f) \in supported_types)
        s1 == IF Len(deleted_files) > 0 THEN delete_files(s0, deleted_files)
              ELSE s0
    IN analyze_files(s1, b.added, repo.tree[worktree])

\* open(path) in analyze_file finds the file in the working tree
CanAnalyze(b) ==
    \A i \in 1..Len(b.added) :
        Ext(b.added[i]) \in supported_types => repo.tree[worktree][b.added[i]] # 0

\* lines 141-184: apply the changes, drain the backlog, store the payload on
\* the PARENT edge, advance
BackApply(p) ==
    /\ bld[p].pc = "back_apply"
    /\ CanAnalyze(bld[p])
    /\ LET b == bld[p]
           s == ApplyChanges(b)
           d == clear_backlog(s)
       IN /\ scratch' = Some(s.g)
          /\ cg' = IF Len(d.queries) > 0
                   THEN set_parent_transition(cg, b.child, b.parent,
                                              d.queries, DumpAll(d.params))
                   ELSE cg
          /\ bld' = [bld EXCEPT ![p] = [b EXCEPT !.pc = "back",
                         !.backlog = d.backlog, !.child = b.parent,
                         !.steps = Append(@, StepDone("PARENT", b.child,
                                                      b.parent, s.g))]]
    /\ UNCHANGED <<repo, procs, worktree, live, checkpoint, sw, lastMove, nSwitch,
                   allOk, api>>

\* one turn of the forward loop up to the checkout (lines 192-205), or the
\* end of the loop
FwdLink(p) ==
    /\ bld[p].pc = "fwd"
    /\ LET b == bld[p] IN
       IF b.parent = b.head
       THEN bld' = [bld EXCEPT ![p].pc = "cleanup"]
       ELSE IF get_child_commit(cg, b.parent) = {}
       THEN bld' = [bld EXCEPT ![p] = [b EXCEPT !.pc = "aborted",
                                               !.why = "no_child"]]
       ELSE \E c \in get_child_commit(cg, b.parent) :
              LET ch == classify_changes(
                          Diff(repo.tree[b.parent], repo.tree[c.hash]),
                          IgnoreList)
              IN bld' = [bld EXCEPT ![p] = [b EXCEPT !.pc = "fwd_checkout",
                             !.child = c.hash, !.added = ch.added,
                             !.deleted = ch.deleted]]
    /\ UNCHANGED <<repo, procs, worktree, live, scratch, cg, checkpoint, sw, lastMove, nSwitch,
                   allOk, api>>

\* repo.git.checkout(child_commit.hexsha), line 209
FwdCheckout(p) ==
    /\ bld[p].pc = "fwd_checkout"
    /\ worktree' = bld[p].child
    /\ bld' = [bld EXCEPT ![p].pc = "fwd_apply"]
    /\ UNCHANGED <<repo, procs, live, scratch, cg, checkpoint, sw, lastMove, nSwitch,
                   allOk, api>>

\* lines 215-258: apply the changes, drain the backlog, store the payload on
\* the CHILD edge (the call raises), advance
FwdApply(p) ==
    /\ bld[p].pc = "fwd_apply"
    /\ CanAnalyze(bld[p])
    /\ LET b == bld[p]
           s == ApplyChanges(b)
           d == clear_backlog(s)
           r == set_child_transition(cg, b.child, b.parent, d.queries,
                                     DumpAll(d.params))
           st == StepDone("CHILD", b.parent, b.child, s.g)
       IN /\ scratch' = Some(s.g)
          /\ IF Len(d.queries) > 0
             THEN IF r.ok
                  THEN /\ cg' = r.cg
                       /\ bld' = [bld EXCEPT ![p] = [b EXCEPT !.pc = "fwd",
                                      !.backlog = d.backlog, !.parent = b.child,
                                      !.steps = Append(@, st)]]
                  ELSE /\ cg' = cg
                       /\ bld' = [bld EXCEPT ![p] = [b EXCEPT !.pc = "aborted",
                                      !.backlog = d.backlog, !.why = "store",
                                      !.steps = Append(@, st)]]
             ELSE /\ cg' = cg
                  /\ bld' = [bld EXCEPT ![p] = [b EXCEPT !.pc = "fwd",
                                 !.backlog = d.backlog, !.parent = b.child,
                                 !.steps = Append(@, st)]]
    /\ UNCHANGED <<repo, procs, worktree, live, checkpoint, sw, lastMove, nSwitch,
                   allOk, api>>

\* lines 266-272: disable the backlog, delete the scratch graph, return
Cleanup(p) ==
    /\ bld[p].pc = "cleanup"
    /\ scratch' = None
    /\ bld' = [bld EXCEPT ![p] = [@ EXCEPT !.pc = "done", !.backlog = None]]
    /\ UNCHANGED <<repo, procs, worktree, live, cg, checkpoint, sw, lastMove, nSwitch,
                   allOk, api>>

\* a checkout, an analyzer call or a graph query raises: nothing catches it,
\* build_commit_graph ends there
BuildFail(p) ==
    /\ bld[p].pc \in {"back_checkout", "back_apply", "fwd_checkout", "fwd_apply"}
    /\ bld' = [bld EXCEPT ![p] = [@ EXCEPT !.pc = "aborted", !.why = "io"]]
    /\ allOk' = FALSE
    /\ UNCHANGED <<repo, procs, worktree, live, scratch, cg, checkpoint, sw,
                   lastMove, nSwitch, api>>

\* --------------------------------------------------- checkpoint switcher
\* the values switch_commit is called with: a string (val 0 = the empty
\* string) or a value of another type (val 0 = None)
RepoName == StrArg(1)
ToArgs ==
    {StrArg(h) : h \in 0..repo.n} \cup {StrArg(UnknownHash)}
    \cup {[str |-> FALSE, val |-> 1]}
CallArgs ==
    {<<RepoName, t>> : t \in ToArgs}
    \cup {<<StrArg(0), StrArg(1)>>, <<[str |-> FALSE, val |-> 1], StrArg(1)>>}

\* the validation without its isinstance test (sensitivity of C8)
NonEmptyOnly(a) == a.val # 0

\* "not x or not isinstance(x, str)" is false
ValidArg(a) == a.val # 0 /\ a.str

\* get_repo_commit / set_repo_commit: the key {<repo>}_commit
get_repo_commit == checkpoint
set_repo_commit(to) == Some(to)

Min(a, b) == IF a < b THEN a ELSE b

\* the statements the Graph and GitGraph constructors issue (index creation)
GraphInitStatements == 2
GitGraphInitStatements == 1

RECURSIVE ZipOps(_, _)
\* only the first operation of each edge's payload (sensitivity of C18)
ZipOpsFirst(queries, params) ==
    [i \in 1..Min(Len(queries), Len(params)) |->
        [q |-> queries[i][1], p |-> params[i][1]]]

\* for q, p in zip(queries, params): for _q, _p in zip(q, p): the operations
\* the replay loop visits, in order
ZipOps(queries, params) ==
    IF queries = <<>> \/ params = <<>> THEN <<>>
    ELSE LET q == Head(queries)
             ps == Head(params)
         IN [j \in 1..Min(Len(q), Len(ps)) |-> [q |-> q[j], p |-> ps[j]]]
            \o ZipOps(Tail(queries), Tail(params))

\* a move between commits of equal date taken as backward (sensitivity of C17)
IsBackwardOrEqual(current_commit, new_commit) ==
    current_commit.date >= new_commit.date

\* line 354: current_commit['date'] > new_commit['date']
IsBackward(current_commit, new_commit) ==
    current_commit.date > new_commit.date

\* the comparison of line 335 never succeeding (sensitivity of C6)
NeverSame(current_hash, to) == FALSE

\* line 335: current_hash == to
SameCommit(current_hash, to) == current_hash = Some(to)

\* switch_commit, lines 302-338: validate, build the graph objects, read the
\* checkpoint, return at once when it is the target
SwitchCall(p, repoArg, toArg) ==
    /\ Free(p)
    /\ nSwitch < (IF bld[p].why = "io" THEN MaxFaultSwitches ELSE MaxSwitches)
    /\ LET s0 == [IdleSwitch EXCEPT !.repo = repoArg, !.to = toArg,
                      !.pre = Some([checkpoint |-> checkpoint, live |-> live,
                                    cg |-> cg])]
       IN IF ~ValidArg(repoArg) \/ ~ValidArg(toArg)
          THEN /\ sw' = [sw EXCEPT ![p] = [s0 EXCEPT !.pc = "failed",
                                                   !.why = "invalid_argument"]]
               /\ allOk' = FALSE
          ELSE LET s1 == [s0 EXCEPT !.current = get_repo_commit, !.reads = 1,
                              !.ddl = GraphInitStatements + GitGraphInitStatements]
               IN /\ sw' = [sw EXCEPT ![p] = [s1 EXCEPT !.pc =
                               IF SameCommit(s1.current, toArg.val)
                               THEN "returned" ELSE "resolving"]]
                  /\ allOk' = allOk
    /\ UNCHANGED <<repo, procs, worktree, live, scratch, cg, checkpoint, bld,
                   lastMove, nSwitch, api>>

\* lines 340-365: fetch both commits, pick the direction by date, fetch the
\* payloads of the path
SwitchResolve(p) ==
    /\ sw[p].pc = "resolving"
    /\ LET s == sw[p]
           current_hash == s.current
           commits == get_commits(cg, {s.to.val} \cup
                         (IF IsSome(current_hash) THEN {The(current_hash)}
                          ELSE {}))
       IN IF Len(commits) # 2
          THEN /\ sw' = [sw EXCEPT ![p] = [s EXCEPT !.pc = "failed",
                             !.why = "not_found", !.cgq = 1]]
               /\ nSwitch' = nSwitch
               /\ allOk' = FALSE
          ELSE LET straight == Some(commits[1].hash) = current_hash
                   current_commit == IF straight THEN commits[1] ELSE commits[2]
                   new_commit == IF straight THEN commits[2] ELSE commits[1]
                   backward == IsBackward(current_commit, new_commit)
                   ts == IF backward
                         THEN get_parent_transitions(cg, current_commit.hash,
                                                     new_commit.hash)
                         ELSE get_child_transitions(cg, new_commit.hash,
                                                    current_commit.hash)
               IN \E t \in ts :
                    /\ sw' = [sw EXCEPT ![p] = [s EXCEPT !.pc = "replaying",
                              !.dir = IF backward THEN "backward" ELSE "forward",
                              !.pending = ZipOps(t.queries, t.params),
                              !.total = Len(ZipOps(t.queries, t.params)),
                              !.payload = [queries |-> t.queries,
                                           params |-> t.params],
                              !.cgq = 2]]
                    /\ nSwitch' = nSwitch + 1
                    /\ allOk' = allOk
    /\ UNCHANGED <<repo, procs, worktree, live, scratch, cg, checkpoint, bld,
                   lastMove, api>>

\* Graph.rerun_query on the live graph (its Graph object has no backlog)
rerun_query(g, q, p) ==
    query([g |-> g, backlog |-> None, rows |-> <<>>], q, p)

\* lines 368-377: one turn of the replay loop
ReplayOp(p) ==
    /\ sw[p].pc = "replaying"
    /\ sw[p].pending # <<>>
    /\ LET s == sw[p]
           op == Head(s.pending)
           res == rerun_query(live, op.q, JsonLoads(op.p))
       IN /\ live' = res.g
          /\ sw' = [sw EXCEPT ![p] = [s EXCEPT !.pending = Tail(s.pending),
                        !.liveq = s.liveq + 1,
                        !.executed = Append(@, [q |-> op.q,
                                                p |-> JsonLoads(op.p),
                                                rows |-> res.rows]),
                        !.change_set.deletions.nodes =
                            IF IsDeleteText(op.q) THEN @ \o res.rows ELSE @]]
    /\ UNCHANGED <<repo, procs, worktree, scratch, cg, checkpoint, bld,
                   lastMove, nSwitch, allOk, api>>

\* a failing replay that still writes the checkpoint (sensitivity of C9)
ReplayFailMoves(p) ==
    /\ sw[p].pc = "replaying"
    /\ sw[p].pending # <<>>
    /\ sw' = [sw EXCEPT ![p] = [@ EXCEPT !.pc = "failed", !.why = "io"]]
    /\ checkpoint' = Some(sw[p].to.val)
    /\ allOk' = FALSE
    /\ UNCHANGED <<repo, procs, worktree, live, scratch, cg, bld, lastMove,
                   nSwitch, api>>

\* a replayed query raises: switch_commit ends there
ReplayFail(p) ==
    /\ sw[p].pc = "replaying"
    /\ sw[p].pending # <<>>
    /\ sw' = [sw EXCEPT ![p] = [@ EXCEPT !.pc = "failed", !.why = "io"]]
    /\ allOk' = FALSE
    /\ UNCHANGED <<repo, procs, worktree, live, scratch, cg, checkpoint, bld,
                   lastMove, nSwitch, api>>

\* lines 379-383: write the checkpoint, return the change set
SwitchFinish(p) ==
    /\ sw[p].pc = "replaying"
    /\ sw[p].pending = <<>>
    /\ checkpoint' = set_repo_commit(sw[p].to.val)
    /\ sw' = [sw EXCEPT ![p] = [@ EXCEPT !.pc = "returned", !.writes = 1,
                  !.round = IF IsSome(lastMove)
                               /\ The(lastMove).to = sw[p].current
                               /\ The(lastMove).from = Some(sw[p].to.val)
                            THEN Some(The(lastMove).before) ELSE None]]
    /\ lastMove' = Some([from |-> sw[p].current, to |-> Some(sw[p].to.val),
                         before |-> The(sw[p].pre).live])
    /\ UNCHANGED <<repo, procs, worktree, live, scratch, cg, bld, nSwitch,
                   allOk, api>>

Next ==
    \/ \E p \in procs : BuildStart(p)
    \/ \E p \in procs : BackLink(p)
    \/ \E p \in procs : BackCheckout(p)
    \/ \E p \in procs : BackApply(p)
    \/ \E p \in procs : FwdLink(p)
    \/ \E p \in procs : FwdCheckout(p)
    \/ \E p \in procs : FwdApply(p)
    \/ \E p \in procs : Cleanup(p)
    \/ \E p \in procs : BuildFail(p)
    \/ \E p \in procs : \E a \in CallArgs : SwitchCall(p, a[1], a[2])
    \/ \E p \in procs : SwitchResolve(p)
    \/ \E p \in procs : ReplayOp(p)
    \/ \E p \in procs : ReplayFail(p)
    \/ \E p \in procs : SwitchFinish(p)

Spec == Init /\ [][Next]_vars

\* the builder run repeatedly on an unchanged repository and live graph
NextRebuild ==
    \/ \E p \in procs : BuildStart(p)
    \/ \E p \in procs : Rebuild(p)
    \/ \E p \in procs : BackLink(p)
    \/ \E p \in procs : BackCheckout(p)
    \/ \E p \in procs : BackApply(p)
    \/ \E p \in procs : FwdLink(p)
    \/ \E p \in procs : FwdCheckout(p)
    \/ \E p \in procs : FwdApply(p)
    \/ \E p \in procs : Cleanup(p)
    \/ \E p \in procs : BuildFail(p)

SpecRebuild == Init /\ [][NextRebuild]_vars

\* ------------------------------------------ two callers of switch_commit
\* two request handlers on one repository: the first builds the commit
\* graph, then both call switch_commit, their queries interleaving freely
InitConc ==
    /\ repo \in Histories
    /\ procs = {1, 2}
    /\ worktree = repo.n
    /\ live = analyze_sources(repo.tree[repo.n])
    /\ scratch = None
    /\ cg = EmptyCommitGraph
    /\ checkpoint = Some(repo.n)
    /\ bld = [p \in procs |-> IdleBuild]
    /\ sw = [p \in procs |-> IdleSwitch]
    /\ lastMove = None
    /\ nSwitch = 0
    /\ allOk = TRUE
    /\ api = NoCall

\* the build has ended, by a return or by an exception
BuildOver == bld[1].pc \in {"done", "aborted"}

NextConc ==
    \/ \E p \in procs : p = 1 /\ BuildStart(p)
    \/ \E p \in procs : BackLink(p)
    \/ \E p \in procs : BackCheckout(p)
    \/ \E p \in procs : BackApply(p)
    \/ \E p \in procs : FwdLink(p)
    \/ \E p \in procs : FwdCheckout(p)
    \/ \E p \in procs : FwdApply(p)
    \/ \E p \in procs : Cleanup(p)
    \/ \E p \in procs : \E t \in 1..repo.n :
          BuildOver /\ SwitchCall(p, RepoName, StrArg(t))
    \/ \E p \in procs : SwitchResolve(p)
    \/ \E p \in procs : ReplayOp(p)
    \/ \E p \in procs : SwitchFinish(p)

SpecConc == InitConc /\ [][NextConc]_vars

\* ------------------------------------- two callers of build_commit_graph
\* Graph.clone, line 84: the test that the key <repo>_tmp does not exist
CloneCheck(p) ==
    /\ Free(p)
    /\ bld[p].runs < MaxBuilds
    /\ bld' = [bld EXCEPT ![p] =
                 [IdleBuild EXCEPT !.runs = bld[p].runs + 1,
                                   !.pc = IF IsSome(scratch) THEN "aborted"
                                          ELSE "cloning",
                                   !.why = IF IsSome(scratch) THEN "clone"
                                           ELSE ""]]
    /\ UNCHANGED <<repo, procs, worktree, live, scratch, cg, checkpoint, sw,
                   lastMove, nSwitch, allOk, api>>

\* Graph.clone, line 87, to build_commit_graph, line 99: the copy (the store
\* refuses to copy onto an existing key), arm the backlog, record HEAD
CloneCopy(p) ==
    /\ bld[p].pc = "cloning"
    /\ BuildBegin(p, bld[p])
    /\ UNCHANGED <<repo, procs, worktree, live, checkpoint, sw, lastMove,
                   nSwitch, allOk, api>>

NextConcBuild ==
    \/ \E p \in procs : CloneCheck(p)
    \/ \E p \in procs : CloneCopy(p)
    \/ \E p \in procs : BackLink(p)
    \/ \E p \in procs : BackCheckout(p)
    \/ \E p \in procs : BackApply(p)
    \/ \E p \in procs : FwdLink(p)
    \/ \E p \in procs : FwdCheckout(p)
    \/ \E p \in procs : FwdApply(p)
    \/ \E p \in procs : Cleanup(p)
    \/ \E p \in procs : BuildFail(p)

SpecConcBuild == InitConc /\ [][NextConcBuild]_vars

\* ------------------------------------------- the recorder, call by call
\* the operations a caller of Graph issues: entity upserts, an edge upsert,
\* a file deletion and a read
RecorderOps ==
    {[q |-> "MERGE File", p |-> [NoParam EXCEPT !.name = "a.py"]],
     [q |-> "MERGE File", p |-> [NoParam EXCEPT !.name = "b.py"]],
     [q |-> "MERGE Function",
      p |-> [NoParam EXCEPT !.path = "a.py", !.name = "f", !.span = 1]],
     [q |-> "MERGE DEFINES", p |-> [NoParam EXCEPT !.src = 0, !.dst = 1]],
     [q |-> "DELETE files", p |-> [NoParam EXCEPT !.files = <<"a.py">>]],
     [q |-> "MATCH File", p |-> NoParam]}

Called(op) == [api EXCEPT !.n = @ + 1, !.op = op, !.prevop = api.op]

\* g.enable_backlog()
EnableBacklog ==
    /\ api.n < MaxApiCalls
    /\ api' = [Called("enable_backlog") EXCEPT !.backlog = Some(NewBacklog),
                                               !.log = <<>>, !.skipped = 0]
    /\ UNCHANGED <<repo, procs, worktree, live, scratch, cg, checkpoint, bld,
                   sw, lastMove, nSwitch, allOk>>

\* g.disable_backlog()
DisableBacklog ==
    /\ api.n < MaxApiCalls
    /\ api' = [Called("disable_backlog") EXCEPT !.backlog = None,
                                                !.log = <<>>, !.skipped = 0]
    /\ UNCHANGED <<repo, procs, worktree, live, scratch, cg, checkpoint, bld,
                   sw, lastMove, nSwitch, allOk>>

\* g._query(q, params) for one operation of the caller; the history log
\* is extended from the counters of the store's result
IssueQuery ==
    /\ api.n < MaxApiCalls
    /\ \E o \in RecorderOps :
         LET s == query([g |-> api.g, backlog |-> api.backlog, rows |-> <<>>],
                        o.q, o.p)
             effective == ExecQuery(api.g, o.q, o.p).changed
             armed == IsSome(api.backlog)
         IN api' = [Called("query") EXCEPT
                      !.g = s.g, !.backlog = s.backlog,
                      !.log = IF armed /\ effective THEN Append(@, o) ELSE @,
                      !.skipped = IF armed /\ ~effective THEN @ + 1 ELSE @]
    /\ UNCHANGED <<repo, procs, worktree, live, scratch, cg, checkpoint, bld,
                   sw, lastMove, nSwitch, allOk>>

\* queries, params = g.clear_backlog()
DrainBacklog ==
    /\ api.n < MaxApiCalls
    /\ LET d == clear_backlog([g |-> api.g, backlog |-> api.backlog,
                               rows |-> <<>>])
       IN api' = [Called("clear_backlog") EXCEPT
                    !.backlog = d.backlog,
                    !.drained = [queries |-> d.queries, params |-> d.params],
                    !.lastlog = api.log, !.prevlast = api.lastlog,
                    !.wasArmed = IsSome(api.backlog),
                    !.log = <<>>, !.skipped = 0]
    /\ UNCHANGED <<repo, procs, worktree, live, scratch, cg, checkpoint, bld,
                   sw, lastMove, nSwitch, allOk>>

NextRecorder ==
    \/ EnableBacklog
    \/ DisableBacklog
    \/ IssueQuery
    \/ DrainBacklog

SpecRecorder == Init /\ [][NextRecorder]_vars

\* -------------------------------------------- the GitGraph, call by call
\* a repository of one commit: the calls below take their arguments from
\* the caller, not from the repository
InitStore == Init /\ repo.n = 1

\* hashes and dates a caller passes
StoreHashes == 1..2
StoreDates == 1..2
\* a payload a caller attaches: one operation and its encoded parameters
StoreQueries == <<"MERGE File">>
StoreParams == DumpAll(<<[NoParam EXCEPT !.name = "a.py"]>>)

\* git_graph.add_commit(hash, author, message, date)
StoreAddCommit ==
    /\ api.n < MaxApiCalls
    /\ \E h \in StoreHashes, d \in StoreDates :
         cg' = add_commit(cg, h, Author(h), Message(h), d)
    /\ api' = [Called("add_commit") EXCEPT !.pre = cg]
    /\ UNCHANGED <<repo, procs, worktree, live, scratch, checkpoint, bld, sw,
                   lastMove, nSwitch, allOk>>

\* git_graph.connect_commits(child, parent)
StoreConnect ==
    /\ api.n < MaxApiCalls
    /\ \E c \in StoreHashes : \E p \in StoreHashes \ {c} :
         cg' = connect_commits(cg, c, p)
    /\ api' = [Called("connect_commits") EXCEPT !.pre = cg]
    /\ UNCHANGED <<repo, procs, worktree, live, scratch, checkpoint, bld, sw,
                   lastMove, nSwitch, allOk>>

\* git_graph.set_parent_transition(child, parent, queries, params)
StoreSetParent ==
    /\ api.n < MaxApiCalls
    /\ \E c \in StoreHashes : \E p \in StoreHashes \ {c} :
         /\ cg' = set_parent_transition(cg, c, p, StoreQueries, StoreParams)
         /\ api' = [Called("set_parent_transition") EXCEPT
                      !.kind = "PARENT", !.from = c, !.to = p, !.ok = TRUE,
                      !.pre = cg]
    /\ UNCHANGED <<repo, procs, worktree, live, scratch, checkpoint, bld, sw,
                   lastMove, nSwitch, allOk>>

\* git_graph.set_child_transition(child, parent, queries, params)
StoreSetChild ==
    /\ api.n < MaxApiCalls
    /\ \E c \in StoreHashes : \E p \in StoreHashes \ {c} :
         LET r == set_child_transition(cg, c, p, StoreQueries, StoreParams)
         IN /\ cg' = r.cg
            /\ api' = [Called("set_child_transition") EXCEPT
                         !.kind = "CHILD", !.from = p, !.to = c, !.ok = r.ok,
                         !.pre = cg]
    /\ UNCHANGED <<repo, procs, worktree, live, scratch, checkpoint, bld, sw,
                   lastMove, nSwitch, allOk>>

NextStore ==
    \/ StoreAddCommit
    \/ StoreConnect
    \/ StoreSetParent
    \/ StoreSetChild

SpecStore == InitStore /\ [][NextStore]_vars

\* ------------------------------------------------------------ properties
\* the entities of a graph without their identifiers
EntitiesOf(g) ==
    {[lbl |-> n.lbl, path |-> n.path, name |-> n.name, span |-> n.span]
     : n \in g.nodes}

\* the hashes recorded in a commit graph
Hashes(g) == {c.hash : c \in g.nodes}

\* the builder has ended (returned, or raised on its own) and every call so
\* far went through without an injected fault or a refused switch
AfterBuild(p) == allOk /\ bld[p].pc \in {"done", "aborted"}

\* C1: once build_commit_graph has run, after any sequence of successful
\* switch_commit calls to commits of the lineage the live graph holds a File
\* entity for a path exactly when the path is a supported file of the tree of
\* the commit the checkpoint names.
C1_FilesFollowCheckpoint ==
    \A p \in procs :
        (AfterBuild(p) /\ sw[p].pc \in {"idle", "returned"} /\ IsSome(checkpoint))
        => FilesOf(live) = TreeFiles(repo.tree[The(checkpoint)])

\* C2: round trip. With the checkpoint at HEAD after a build, a switch to an
\* ancestor followed by a switch back to HEAD leaves the files and defined
\* entities of the live graph as they were before the first switch.
C2_RoundTrip ==
    \A p \in procs :
        (AfterBuild(p) /\ sw[p].pc = "returned" /\ IsSome(sw[p].round)
         /\ checkpoint = Some(repo.n))
        => EntitiesOf(live) = EntitiesOf(The(sw[p].round))

C4_ParentChildSymmetry ==
    /\ \A x, y \in cg.nodes :
          HasEdge(cg, "PARENT", x, y) <=> HasEdge(cg, "CHILD", y, x)
    /\ \A e \in cg.edges : e.src \in cg.nodes /\ e.dst \in cg.nodes
    /\ \A p \in procs : bld[p].pc = "done" =>
          \A c \in 2..repo.n : \E x, y \in cg.nodes :
              /\ x.hash = c /\ y.hash = c - 1
              /\ HasEdge(cg, "PARENT", x, y) /\ HasEdge(cg, "CHILD", y, x)

C4_Witness ==
    \E p \in procs :
        /\ bld[p].pc = "done"
        /\ repo.n = MaxCommits
        /\ Cardinality(cg.edges) = 2 * (repo.n - 1)

\* C5: idempotence. When build_commit_graph is run again on the unchanged
\* repository and live graph, the commit graph at the end of the later run is
\* the one the previous run left: same Commit nodes, same edges, same payloads.
C5_RebuildIdentical ==
    \A p \in procs :
        (bld[p].runs >= 2 /\ bld[p].pc \in {"done", "aborted"})
        => cg = The(bld[p].prev)

C5_Witness ==
    \E p \in procs :
        /\ bld[p].pc = "done"
        /\ bld[p].runs = 2
        /\ Cardinality(cg.nodes) = MaxCommits
        /\ Cardinality(cg.edges) = 2 * (MaxCommits - 1)

\* a call that passed validation and read a checkpoint equal to its target
SameCommitCall(p) ==
    /\ sw[p].pc # "idle"
    /\ sw[p].reads = 1
    /\ sw[p].current = Some(sw[p].to.val)

\* what a call in flight or ended found when it was entered is still there
Untouched(p) ==
    /\ checkpoint = The(sw[p].pre).checkpoint
    /\ live = The(sw[p].pre).live
    /\ cg = The(sw[p].pre).cg

\* C6: switch_commit with `to` equal to the current checkpoint returns a
\* change set of six empty lists, executes no query against the live graph
\* and the commit graph, and leaves the checkpoint unchanged.
C6_SameCommitNoQuery ==
    \A p \in procs :
        SameCommitCall(p)
        => /\ sw[p].pc = "returned"
           /\ sw[p].change_set = EmptyChangeSet
           /\ sw[p].ddl + sw[p].cgq + sw[p].liveq = 0
           /\ checkpoint = The(sw[p].pre).checkpoint

\* C6, as the code has it: the call returns a change set of six empty lists,
\* sends the stores nothing but the index-creation statements of the Graph
\* and GitGraph constructors (no query reads or writes a node or an edge),
\* and leaves the checkpoint, the live graph and the commit graph unchanged.
C6_SameCommitNoDataQuery ==
    \A p \in procs :
        SameCommitCall(p)
        => /\ sw[p].pc = "returned"
           /\ sw[p].change_set = EmptyChangeSet
           /\ sw[p].ddl = GraphInitStatements + GitGraphInitStatements
           /\ sw[p].cgq = 0 /\ sw[p].liveq = 0 /\ sw[p].writes = 0
           /\ Untouched(p)

C6_Witness ==
    \E p \in procs :
        /\ SameCommitCall(p)
        /\ sw[p].pc = "returned"
        /\ nSwitch >= 1
        /\ checkpoint # Some(repo.n)

\* a call that passed validation and got past the lookup of its two commits
\* (or returned) although one of them is no Commit of the commit graph
UnknownCommitCall(p) ==
    /\ sw[p].pc \in {"replaying", "returned", "failed"}
    /\ sw[p].reads = 1
    /\ \/ sw[p].to.val \notin Hashes(cg)
       \/ ~IsSome(sw[p].current)
       \/ The(sw[p].current) \notin Hashes(cg)

NotFoundUnchanged(p) ==
    /\ sw[p].pc = "failed"
    /\ sw[p].why = "not_found"
    /\ checkpoint = The(sw[p].pre).checkpoint
    /\ live = The(sw[p].pre).live

\* C7: switch_commit where `to` (or the current checkpoint hash) is not a
\* Commit of the commit graph fails with a not-found error, and the
\* checkpoint and the live graph are then what they were before the call.
C7_UnknownCommitNotFound ==
    \A p \in procs : UnknownCommitCall(p) => NotFoundUnchanged(p)

\* C7, as the code has it: the same, for a target that differs from the
\* current checkpoint (a target equal to the checkpoint returns the empty
\* change set before any commit is looked up).
C7_UnknownOtherCommitNotFound ==
    \A p \in procs :
        (UnknownCommitCall(p) /\ sw[p].current # Some(sw[p].to.val))
        => NotFoundUnchanged(p)

C7_Witness ==
    \E p \in procs :
        /\ NotFoundUnchanged(p)
        /\ sw[p].to.val = UnknownHash
        /\ nSwitch >= 1
        /\ cg.nodes # {}

\* C8: switch_commit called with an empty or non-string repository name or
\* target fails with an invalid-argument error before any read of the
\* checkpoint, any commit graph query and any live graph query, and changes
\* no state.
C8_InvalidArgumentFirst ==
    \A p \in procs :
        (sw[p].pc # "idle"
         /\ (~sw[p].repo.str \/ sw[p].repo.val = 0
             \/ ~sw[p].to.str \/ sw[p].to.val = 0))
        => /\ sw[p].pc = "failed"
           /\ sw[p].why = "invalid_argument"
           /\ sw[p].reads = 0 /\ sw[p].ddl = 0 /\ sw[p].cgq = 0
           /\ sw[p].liveq = 0 /\ sw[p].writes = 0
           /\ Untouched(p)

C8_Witness ==
    \E p \in procs :
        /\ sw[p].why = "invalid_argument"
        /\ ~sw[p].to.str
        /\ cg.nodes # {}

\* C9: the checkpoint is written to `to` only after every operation of every
\* payload of the resolved path has been executed; while the call runs and
\* after any failure the checkpoint holds the pre-switch hash.
C9_CheckpointAfterReplay ==
    \A p \in procs :
        /\ sw[p].pc \in {"resolving", "replaying", "failed"}
           => checkpoint = The(sw[p].pre).checkpoint
        /\ sw[p].writes = 1
           => /\ sw[p].pc = "returned"
              /\ sw[p].pending = <<>>
              /\ sw[p].liveq = sw[p].total
              /\ checkpoint = Some(sw[p].to.val)

C9_Witness ==
    \E p \in procs :
        /\ sw[p].pc = "failed"
        /\ sw[p].why = "io"
        /\ sw[p].liveq >= 1
        /\ live # The(sw[p].pre).live

\* C10: in every terminal state of build_commit_graph, whether it returned
\* or aborted, the scratch graph <repo>_tmp no longer exists.
C10_ScratchDestroyed ==
    \A p \in procs : bld[p].pc \in {"done", "aborted"} => scratch = None

\* C11: in every terminal state of build_commit_graph, after a normal return
\* and after an abort at any step, the working tree is checked out at the
\* commit that was HEAD when the build started.
C11_WorkingTreeRestored ==
    \A p \in procs :
        (bld[p].pc \in {"done", "aborted"} /\ IsSome(bld[p].start))
        => worktree = The(bld[p].start).head

\* the operation texts and the parameter sets of a history log
LogQueries(log) == [i \in 1..Len(log) |-> log[i].q]
LogParams(log) == [i \in 1..Len(log) |-> log[i].p]

\* C12: while the backlog is armed, it holds exactly the operations issued
\* since the last drain whose result had a positive change counter, in issue
\* order, each with its parameters; an operation that changed nothing is
\* executed and not recorded.
C12_BacklogIsEffectiveLog ==
    IsSome(api.backlog) =>
        /\ The(api.backlog).queries = LogQueries(api.log)
        /\ The(api.backlog).params = LogParams(api.log)

\* armed, two effective operations recorded and one ineffective one skipped
C12_Witness ==
    /\ IsSome(api.backlog)
    /\ Len(api.log) >= 2
    /\ api.skipped >= 1
    /\ Len(The(api.backlog).queries) = 2

\* C13: clear_backlog returns two aligned lists of equal length holding what
\* was recorded since the last drain and leaves the backlog empty and armed,
\* so that a drain right after a drain returns two empty lists; on a
\* disabled backlog it returns two empty lists and the backlog stays disabled.
C13_DrainReturnsAndResets ==
    api.op = "clear_backlog" =>
        /\ Len(api.drained.queries) = Len(api.drained.params)
        /\ api.wasArmed =>
              /\ api.drained.queries = LogQueries(api.lastlog)
              /\ api.drained.params = LogParams(api.lastlog)
              /\ api.backlog = Some(NewBacklog)
        /\ ~api.wasArmed =>
              /\ api.drained = NewBacklog
              /\ api.backlog = None
        /\ api.prevop = "clear_backlog" => api.drained = NewBacklog

\* a drain of a recorded operation followed at once by a second drain
C13_Witness ==
    /\ api.op = "clear_backlog"
    /\ api.prevop = "clear_backlog"
    /\ api.wasArmed
    /\ Len(api.prevlast) = 1
    /\ api.drained = NewBacklog

\* the two hashes name commits joined by an edge of the kind, src to dst
Adjacent(g, kind, from, to) ==
    \E e \in g.edges : e.kind = kind /\ e.src.hash = from /\ e.dst.hash = to

\* C14: a set-transition call between two commits that are not joined by an
\* edge of the given direction (no such edge, or a commit absent) fails: it
\* does not return normally.
C14_NonAdjacentSetFails ==
    (api.op \in {"set_parent_transition", "set_child_transition"}
     /\ ~Adjacent(api.pre, api.kind, api.from, api.to))
    => ~api.ok

\* C15: after any sequence of add_commit calls the commit graph holds at most
\* one Commit node per hash, also when a hash is added again with another
\* author, message or date.
C15_OneCommitPerHash ==
    \A c1, c2 \in cg.nodes : c1.hash = c2.hash => c1 = c2

\* the commit one edge of the kind away in the lineage
StepOf(kind, c) == IF kind = "PARENT" THEN c - 1 ELSE c + 1

\* the commits from..to of the lineage are joined, one after the other, by
\* edges of the kind
Joined(kind, from, to) ==
    /\ IF kind = "PARENT" THEN from > to ELSE from < to
    /\ \A c \in 1..repo.n :
         ((IF kind = "PARENT" THEN c <= from /\ c > to ELSE c >= from /\ c < to)
          => Adjacent(cg, kind, c, StepOf(kind, c)))

RECURSIVE WalkPayload(_, _, _)
\* the payloads met walking the lineage from commit from to commit to, edge
\* by edge, an edge without payload adding nothing
WalkPayload(kind, from, to) ==
    IF from = to THEN [queries |-> <<>>, params |-> <<>>]
    ELSE LET e == CHOOSE x \in cg.edges :
                     x.kind = kind /\ x.src.hash = from
                     /\ x.dst.hash = StepOf(kind, from)
             rest == WalkPayload(kind, StepOf(kind, from), to)
         IN IF IsSome(e.queries)
            THEN [queries |-> <<The(e.queries)>> \o rest.queries,
                  params |-> <<The(e.params)>> \o rest.params]
            ELSE rest

ExpectedPayload(kind, from, to) ==
    IF Joined(kind, from, to) THEN WalkPayload(kind, from, to)
    ELSE [queries |-> <<>>, params |-> <<>>]

\* C16: get_parent_transitions and get_child_transitions return the payloads
\* of the edges of the directed path from the start commit to the end commit,
\* one entry per edge that carries a payload, in path order from the start
\* commit; an edge without payload contributes nothing, and the result is
\* two empty sequences when no edge of the path carries one.
C16_PathPayloadsInOrder ==
    \A from, to \in 1..repo.n :
        /\ get_parent_transitions(cg, from, to)
             = {ExpectedPayload("PARENT", from, to)}
        /\ get_child_transitions(cg, to, from)
             = {ExpectedPayload("CHILD", from, to)}

\* a path of two edges that carry different payloads
C16_Witness ==
    \E from, to \in 1..repo.n :
        /\ from = to + 2
        /\ Joined("PARENT", from, to)
        /\ \E t \in get_parent_transitions(cg, from, to) :
             /\ Len(t.queries) = 2
             /\ t.queries[1] # t.queries[2]

\* a switch call that has resolved its direction and fetched its payload
Resolved(p) ==
    /\ sw[p].dir # ""
    /\ IsSome(sw[p].current)

\* C17: when the date of the checkpoint's commit is strictly greater than the
\* date of the target's commit the switch is a backward move and replays the
\* PARENT path from the current commit to the target; in every other case
\* (target date greater or equal) it is a forward move and replays the CHILD
\* path from the current commit to the target.
C17_DirectionByDate ==
    \A p \in procs :
        Resolved(p) =>
            LET from == The(sw[p].current)
                to == sw[p].to.val
            IN IF repo.date[from] > repo.date[to]
               THEN /\ sw[p].dir = "backward"
                    /\ sw[p].payload = ExpectedPayload("PARENT", from, to)
               ELSE /\ sw[p].dir = "forward"
                    /\ sw[p].payload = ExpectedPayload("CHILD", from, to)

\* a backward move with a payload to replay
C17_Witness ==
    \E p \in procs :
        /\ Resolved(p)
        /\ repo.date[The(sw[p].current)] > repo.date[sw[p].to.val]
        /\ sw[p].dir = "backward"
        /\ sw[p].payload.queries # <<>>

RECURSIVE FlattenPayload(_, _)
\* the operations of a payload, edge after edge and within an edge in
\* recorded order, each with its decoded parameters
FlattenPayload(queries, params) ==
    IF queries = <<>> THEN <<>>
    ELSE [j \in 1..Len(queries[1]) |->
             [q |-> queries[1][j], p |-> params[1][j][2]]]
         \o FlattenPayload(Tail(queries), Tail(params))

\* the operations a switch call has executed, without their results
ExecutedOps(p) ==
    [i \in 1..Len(sw[p].executed) |->
        [q |-> sw[p].executed[i].q, p |-> sw[p].executed[i].p]]

\* C18: the operations a switch replays are exactly the concatenation of the
\* payloads returned for the path, edge after edge and in recorded order
\* within an edge, each executed once with its recorded parameters: while
\* replaying, what has been executed is a prefix of that list, and at the
\* return it is the whole list.
C18_ReplayInOrder ==
    \A p \in procs :
        Resolved(p) =>
            LET path == ExpectedPayload(IF sw[p].dir = "backward"
                                        THEN "PARENT" ELSE "CHILD",
                                        The(sw[p].current), sw[p].to.val)
                all == FlattenPayload(path.queries, path.params)
                done == ExecutedOps(p)
            IN /\ Len(done) <= Len(all)
               /\ done = SubSeq(all, 1, Len(done))
               /\ sw[p].pc = "returned" => done = all

\* a returned switch that replayed the payloads of two edges, one of them
\* with more than one operation
C18_Witness ==
    \E p \in procs :
        /\ Resolved(p)
        /\ sw[p].pc = "returned"
        /\ Len(sw[p].payload.queries) = 2
        /\ Len(sw[p].executed) > 2

RECURSIVE DeletedBy(_)
\* the identifiers returned by the executed operations whose text holds
\* DELETE, in execution order
DeletedBy(executed) ==
    IF executed = <<>> THEN <<>>
    ELSE (IF Head(executed).q = "DELETE files" THEN Head(executed).rows
          ELSE <<>>) \o DeletedBy(Tail(executed))

\* C19: the change set of a switch has six lists of which only
\* deletions.nodes is ever filled: it is the concatenation of the identifier
\* lists returned by the replayed operations whose text contains DELETE;
\* the other five lists are empty.
C19_OnlyDeletedNodes ==
    \A p \in procs :
        LET cs == sw[p].change_set
        IN /\ cs.deletions.nodes = DeletedBy(sw[p].executed)
           /\ cs.deletions.edges = <<>>
           /\ cs.additions = [nodes |-> <<>>, edges |-> <<>>]
           /\ cs.modifications = [nodes |-> <<>>, edges |-> <<>>]

\* a returned switch whose replay deleted nodes and also ran operations
\* that are no deletion
C19_Witness ==
    \E p \in procs :
        /\ sw[p].pc = "returned"
        /\ sw[p].change_set.deletions.nodes # <<>>
        /\ \E i \in 1..Len(sw[p].executed) :
             sw[p].executed[i].q # "DELETE files"

\* a call of switch_commit between its read of the checkpoint and its write
InSwitch(p) == sw[p].pc \in {"resolving", "replaying"}

\* C20: two switch_commit calls on the same repository are serialized: the
\* steps read checkpoint, replay payloads, write checkpoint of one call never
\* interleave with those of the other, so never are two calls both between
\* their read and their write of the checkpoint.
C20_SwitchesSerialized ==
    \A p, q \in procs : (p # q /\ InSwitch(p)) => ~InSwitch(q)

\* a build call that has cloned the scratch graph and has not ended
PastClone(p) ==
    bld[p].pc \in {"back", "back_checkout", "back_apply", "fwd",
                   "fwd_checkout", "fwd_apply", "cleanup"}

CheckpointWrittenBySwitch ==
    \E p \in procs :
        /\ sw[p].pc = "replaying" /\ sw'[p].pc = "returned"
        /\ sw[p].reads = 1
        /\ sw[p].writes = 0 /\ sw'[p].writes = 1
        /\ checkpoint' = Some(sw[p].to.val)

RECURSIVE ReplayAll(_, _, _)
\* the operations of one payload executed in order on graph g, each with its
\* decoded parameters: the resulting graph, and whether every one of them
\* changed the graph it was executed on
ReplayAll(g, queries, params) ==
    IF queries = <<>> \/ params = <<>>
    THEN [g |-> g, effective |-> TRUE]
    ELSE LET r == ExecQuery(g, queries[1], params[1][2])
             rest == ReplayAll(r.g, Tail(queries), Tail(params))
         IN [g |-> rest.g, effective |-> r.changed /\ rest.effective]

\* the edges of the kind between the two commits
EdgesOf(kind, from, to) ==
    {e \in cg.edges : e.kind = kind /\ e.src.hash = from /\ e.dst.hash = to}

\* the payload of edge e is what turn st executed: executed in order on the
\* scratch graph the turn started from, every operation changes the graph
\* and the outcome is the scratch graph the turn ended with; a turn that
\* changed nothing has written no payload
CapturedOn(e, st) ==
    IF st.post = st.pre
    THEN e.queries = None /\ e.params = None
    ELSE /\ IsSome(e.queries) /\ IsSome(e.params)
         /\ Len(The(e.queries)) = Len(The(e.params))
         /\ LET r == ReplayAll(st.pre, The(e.queries), The(e.params))
            IN r.effective /\ r.g = st.post

\* C23: for every backward step child -> parent of the builder, the payload
\* stored on the PARENT edge child -> parent is exactly the sequence of
\* effective operations executed against the scratch graph during that step,
\* with index-aligned parameters and no operation of another step; a step
\* without effective operation writes no payload.
C23_BackwardStepCaptured ==
    \A p \in procs :
        \A i \in 1..Len(bld[p].steps) :
            LET st == bld[p].steps[i]
            IN st.kind = "PARENT" =>
                 /\ EdgesOf("PARENT", st.from, st.to) # {}
                 /\ \A e \in EdgesOf("PARENT", st.from, st.to) :
                      CapturedOn(e, st)

\* a walk of two backward steps that both changed the scratch graph, the
\* later one by a deletion
C23_Witness ==
    \E p \in procs :
        /\ Len(bld[p].steps) >= 2
        /\ bld[p].steps[1].kind = "PARENT" /\ bld[p].steps[2].kind = "PARENT"
        /\ bld[p].steps[1].post # bld[p].steps[1].pre
        /\ \E e \in EdgesOf("PARENT", bld[p].steps[2].from, bld[p].steps[2].to) :
             /\ IsSome(e.queries)
             /\ The(e.queries)[1] = "DELETE files"

\* the supported files of a tree that are not ignored
TrackedFiles(tree) == {f \in TreeFiles(tree) : ~is_ignored(f, IgnoreList)}

\* C24: in each backward step child -> parent the files removed from the
\* scratch graph are those of child's tree absent from parent's and the files
\* analyzed are those of parent's tree absent from child's; starting from
\* HEAD, the scratch graph's File set is child's supported non-ignored file
\* set before the step and parent's after it.
C24_BackwardConvention ==
    \A p \in procs :
        \A i \in 1..Len(bld[p].steps) :
            LET st == bld[p].steps[i]
                child == TrackedFiles(repo.tree[st.from])
                parent == TrackedFiles(repo.tree[st.to])
            IN st.kind = "PARENT" =>
                 /\ FilesOf(st.pre) = child
                 /\ FilesOf(st.pre) \ FilesOf(st.post) = child \ parent
                 /\ FilesOf(st.post) \ FilesOf(st.pre) = parent \ child
                 /\ FilesOf(st.post) = parent

\* a walk whose first backward step removed a file and whose second
\* backward step analyzed one
C24_Witness ==
    \E p \in procs :
        /\ Len(bld[p].steps) >= 2
        /\ bld[p].steps[1].kind = "PARENT" /\ bld[p].steps[2].kind = "PARENT"
        /\ FilesOf(bld[p].steps[1].pre) \ FilesOf(bld[p].steps[1].post) # {}
        /\ FilesOf(bld[p].steps[2].post) \ FilesOf(bld[p].steps[2].pre) # {}

RECURSIVE DefinedBy(_, _)
\* the identifiers of the nodes reachable from the nodes ids over one or
\* more DEFINES edges of graph g, ids included
DefinedBy(g, ids) ==
    LET more == ids \cup {e.dst : e \in {x \in g.edges :
                                          x.rel = "DEFINES" /\ x.src \in ids}}
    IN IF more = ids THEN ids ELSE DefinedBy(g, more)

\* C25: delete_files removes each listed File node and every entity
\* reachable from it over one or more DEFINES edges (a class of the file and
\* the methods of that class included): after a step that removed files,
\* neither those File nodes nor anything they defined, directly or
\* indirectly, is left in the graph.
C25_DeleteFilesTransitive ==
    \A p \in procs :
        \A i \in 1..Len(bld[p].steps) :
            LET st == bld[p].steps[i]
                gone == {n.id : n \in {m \in st.pre.nodes :
                            m.lbl = "File" /\ m.name \notin FilesOf(st.post)}}
            IN FilesOf(st.post) \subseteq FilesOf(st.pre)
               => DefinedBy(st.pre, gone) \cap NodeIds(st.post) = {}

\* C26: after a build, for every adjacent pair (parent, child) whose forward
\* step executed at least one effective operation, the CHILD edge
\* parent -> child carries an operation list and a parameter list of equal
\* length, index-aligned, equal to the operations captured during that step
\* in order; and on every edge the two lists are both absent or both present
\* with the same length.
C26_ForwardStepCaptured ==
    /\ \A e \in cg.edges :
         /\ IsSome(e.queries) <=> IsSome(e.params)
         /\ IsSome(e.queries) => Len(The(e.queries)) = Len(The(e.params))
    /\ \A p \in procs :
         bld[p].pc \in {"done", "aborted"} =>
            \A i \in 1..Len(bld[p].steps) :
                LET st == bld[p].steps[i]
                IN st.kind = "CHILD" =>
                     /\ EdgesOf("CHILD", st.from, st.to) # {}
                     /\ \A e \in EdgesOf("CHILD", st.from, st.to) :
                          CapturedOn(e, st)

\* the edge a loop turn was about
StepEdge(st) == <<st.kind, st.from, st.to>>

\* the turns of a whole walk over the lineage 1..n: backward from HEAD to the
\* root, then forward from the root to HEAD
WholeWalk(n) ==
    [i \in 1..(n - 1) |-> <<"PARENT", n + 1 - i, n - i>>]
    \o [i \in 1..(n - 1) |-> <<"CHILD", i, i + 1>>]

C28_LiveMatchesCheckpoint ==
    \A p \in procs :
        (sw[p].pc \in {"idle", "returned", "failed"} /\ IsSome(checkpoint))
        => EntitiesOf(live)
           = EntitiesOf(analyze_sources(repo.tree[The(checkpoint)]))

\* the nodes, with their identifiers, and the edges of a graph
Content(g) == [nodes |-> g.nodes, edges |-> g.edges]

\* the contents the scratch graph had while builder p stood at commit c: at
\* the start of a step that left c and at the end of a step that reached c
ScratchAt(p, c) ==
    {Content(bld[p].steps[i].pre) :
        i \in {j \in 1..Len(bld[p].steps) : bld[p].steps[j].from = c}}
    \cup
    {Content(bld[p].steps[i].post) :
        i \in {j \in 1..Len(bld[p].steps) : bld[p].steps[j].to = c}}

\* C29: after the build, whatever sequence of switches has ended at commit
\* C, the live graph has the nodes, under the same identifiers, and the edges
\* the scratch graph had when the builder stood at C: an identifier bound in
\* a replayed operation denotes on the live graph the entity it denoted on
\* the scratch graph.
C29_ReplayEquivalence ==
    \A p \in procs :
        (AfterBuild(p) /\ sw[p].pc = "returned" /\ IsSome(checkpoint)
         /\ ScratchAt(p, The(checkpoint)) # {})
        => Content(live) \in ScratchAt(p, The(checkpoint))

\* C30: a switch that has written its target as the checkpoint went along a
\* path of the commit graph: the edges of the kind it resolved (PARENT for a
\* backward move, CHILD for a forward move) join the commit it started from
\* to the target, whatever the dates of the commits.
C30_CheckpointFollowsPath ==
    \A p \in procs :
        (sw[p].pc = "returned" /\ sw[p].writes = 1)
        => Joined(IF sw[p].dir = "backward" THEN "PARENT" ELSE "CHILD",
                  The(sw[p].current), sw[p].to.val)

====
